---- MODULE Spec2Model ----
(***************************************************************************)
(* The shard-movement engine of shardmonster (shardmonster/sharder.py).    *)
(*                                                                         *)
(* One source cluster (a primary, its oplog and an optional hidden         *)
(* secondary that replays the oplog with a lag) and one destination        *)
(* cluster.  Each call of do_migration that passes the guard spawns a      *)
(* ShardMovementThread; the thread's run() is cut into steps at its        *)
(* database round trips.  Application writers, oplog truncation,           *)
(* replication to the hidden secondary, the wall clock and the polling     *)
(* caller run interleaved with the worker.                                 *)
(***************************************************************************)
EXTENDS Integers, Sequences, FiniteSets, TLC

(* ----------------------------- bounds ---------------------------------- *)
\* documents have _id in 1..MaxId
MaxId == 2
\* number of writes the application performs on the source collection
MaxWrites == 2
\* batch sizes handed to do_migration are drawn from 1..MaxBatch
MaxBatch == 2
\* length of the oplog windows the replay laws are checked on
MaxEntries == 2
\* get_caching_duration(), in clock ticks
CachingDuration == 1
\* number of oplog entries the capped oplog may lose
MaxTruncate == 1

Ids == 1 .. MaxId
ShardKeys == {1, 2}
Values == {"a", "b"}
\* the payload of a freshly inserted document
InsertValues == {"a"}
BatchSizes == 1 .. MaxBatch

SourceLoc == "A/appdb"
DestLoc == "B/appdb"

(* metadata.ShardStatus *)
AT_REST == "AT_REST"
MIGRATING_COPY == "MIGRATING_COPY"
MIGRATING_SYNC == "MIGRATING_SYNC"
POST_MIGRATION_PAUSED_AT_DESTINATION == "POST_MIGRATION_PAUSED_AT_DESTINATION"
POST_MIGRATION_DELETE == "POST_MIGRATION_DELETE"
MIGRATION_PHASES ==
    {MIGRATING_COPY, MIGRATING_SYNC, POST_MIGRATION_PAUSED_AT_DESTINATION,
     POST_MIGRATION_DELETE}

(* --------------------------- documents --------------------------------- *)
\* A collection maps each _id to its document, or to NoDoc when there is none.
\* A document carries the realm's shard field (sf) and a payload (v).
NoDoc == [sf |-> 0, v |-> "-"]
Doc == [sf : ShardKeys, v : Values]
EmptyColl == [i \in Ids |-> NoDoc]

\* the oplog entry every replica set starts with (not of our namespace)
InitEntry == [ts |-> 1, ns |-> "other", op |-> "n", id |-> 0,
              o |-> [form |-> "none", sf |-> 0, v |-> "-"]]

VARIABLES
    \* routing metadata store, one record per shard
    status, location, new_location,
    \* source cluster: primary collection, its oplog, hidden secondary
    primary, oplog, hidden, secondary, sec_ts,
    \* destination cluster: the collection and the key list that
    \* sniff_mongos_shard_key(target) or ['_id'] gives for it
    dest, target_key,
    \* ShardMovementThread, one per spawned manager (indexed by shard key)
    pc, oplog_pos, sync_pos, cursor, batch, sync_call, start_sync_time,
    use_hidden_secondary, exception,
    \* ShardMovementManager
    phase, inserted, deleted, insert_batch_size, delete_batch_size,
    \* the caller thread: do_migration outcome and is_finished() progress
    callers, refused, poll_pc, poll_result,
    \* environment: wall clock, write and truncation budgets
    now, writes_left, truncs_left,
    \* history (observers only; no action reads them)
    status_log, del_passes, sync_persisted_at, paused_at, final_sweep,
    written_p2, written_post, written_late,
    \* the operator's recovery helper (fix_failed_pre_delete or
    \* fix_failed_during_delete): its position and locals
    fix,
    \* history: the _ids of the shard that were at the source when the delete
    \* phase began and have not been removed from it since
    to_remove,
    \* what the worker holds open: the cursors of its engines, its cluster
    \* connections and its connections to hidden secondaries
    held

meta_vars == <<status, location, new_location>>
source_vars == <<primary, oplog, hidden, secondary, sec_ts>>
thread_vars == <<pc, oplog_pos, sync_pos, cursor, batch, sync_call,
                 start_sync_time, use_hidden_secondary, exception>>
manager_vars == <<phase, inserted, deleted, insert_batch_size,
                  delete_batch_size>>
caller_vars == <<callers, refused, poll_pc, poll_result>>
env_vars == <<now, writes_left, truncs_left>>
hist_vars == <<status_log, del_passes, sync_persisted_at, paused_at,
               final_sweep, written_p2, written_post,
                   written_late>>
vars == <<meta_vars, source_vars, dest, thread_vars, manager_vars,
          caller_vars, env_vars, hist_vars, fix, target_key,
          to_remove, held>>

(* ------------------------- pure helpers -------------------------------- *)
\* ids of the documents of a collection matching {shard_field: shard_key}
ShardIds(coll, shard_key) ==
    {i \in Ids : coll[i] # NoDoc /\ coll[i].sf = shard_key}

\* the documents of a shard in a collection, as a collection
ShardDocs(coll, shard_key) ==
    [i \in Ids |-> IF i \in ShardIds(coll, shard_key) THEN coll[i] ELSE NoDoc]

\* cursor.next() of find({shard_field: shard_key}) scanning in _id order:
\* the first matching _id after the cursor position, 0 when exhausted
cursor_next(coll, shard_key, pos) ==
    LET rest == {i \in ShardIds(coll, shard_key) : i > pos}
    IN  IF rest = {} THEN 0
        ELSE CHOOSE i \in rest : \A j \in rest : i <= j

\* the key lists sniff_mongos_shard_key(target) or ['_id'] can give: ['_id']
\* for a destination that mongos does not shard, else the fields of the
\* destination's shard key
TargetKeys == {{"_id"}, {"sf"}, {"sf", "_id"}}

\* record[key] for a record of a cursor
field_of(record, key) ==
    IF key = "_id" THEN record.id
    ELSE IF key = "sf" THEN record.doc.sf
    ELSE record.doc.v

\* pick(target_key, record): the upsert selector
pick(key, record) == [f \in key |-> field_of(record, f)]

\* without_id(record): the fields $set writes
without_id(record) == record.doc

\* the _ids of the documents of a collection a selector matches
matching(coll, selector) ==
    {i \in Ids :
        /\ coll[i] # NoDoc
        /\ \A f \in DOMAIN selector :
              field_of([id |-> i, doc |-> coll[i]], f) = selector[f]}

\* the _id the server generates for an upserted document whose selector
\* names none: one that no document of the collection has (here the
\* greatest such)
generated_id(coll) ==
    CHOOSE i \in Ids :
        /\ coll[i] = NoDoc
        /\ \A j \in Ids : coll[j] = NoDoc => j <= i

\* one UpdateOne(selector, {'$set': fields}, upsert=True) on a collection:
\* the first matching document is updated; when none matches, a document is
\* inserted under the selector's _id (DuplicateKeyError if that _id is
\* taken) or under a generated _id
UpdateOne(coll, selector, fields) ==
    LET found == matching(coll, selector) IN
    IF found # {}
    THEN [coll |-> [coll EXCEPT
                ![CHOOSE i \in found : \A j \in found : i <= j] = fields],
          nUpserted |-> 0, raised |-> FALSE]
    ELSE IF "_id" \in DOMAIN selector
    THEN IF coll[selector["_id"]] # NoDoc
         THEN [coll |-> coll, nUpserted |-> 0, raised |-> TRUE]
         ELSE [coll |-> [coll EXCEPT ![selector["_id"]] = fields],
               nUpserted |-> 1, raised |-> FALSE]
    ELSE [coll |-> [coll EXCEPT ![generated_id(coll)] = fields],
          nUpserted |-> 1, raised |-> FALSE]

\* bulk_write(batch_of_upsert_ops(batch, target_key), ordered=True): the
\* operations applied in order up to the first that fails
RECURSIVE batch_of_upsert_ops(_, _, _)
batch_of_upsert_ops(coll, records, key) ==
    IF records = <<>> THEN [coll |-> coll, nUpserted |-> 0, raised |-> FALSE]
    ELSE LET r == UpdateOne(coll, pick(key, Head(records)),
                            without_id(Head(records)))
         IN  IF r.raised THEN r
             ELSE LET rest == batch_of_upsert_ops(r.coll, Tail(records), key)
                  IN  [rest EXCEPT !.nUpserted = @ + r.nUpserted]

\* nothing is counted
nUpserted_negative(coll, records, key) == 0 - Len(records)

\* result.bulk_api_result['nUpserted']: the operations that matched nothing
nUpserted(coll, records, key) ==
    batch_of_upsert_ops(coll, records, key).nUpserted

\* source_document == entry['o']
same_as_payload(doc, o) == o.form = "doc" /\ o.sf = doc.sf /\ o.v = doc.v

\* target.insert(doc): a present _id raises DuplicateKeyError
insert(coll, id, o) ==
    IF coll[id] # NoDoc THEN [coll |-> coll, dup |-> TRUE]
    ELSE [coll |-> [coll EXCEPT ![id] = [sf |-> o.sf, v |-> o.v]],
          dup |-> FALSE]

\* the DuplicateKeyError of an insert replay propagates
replay_insert_raising(entry, shard_key, source, target) ==
    IF entry.id \in ShardIds(source, shard_key)
    THEN [coll |-> insert(target, entry.id, entry.o).coll,
          raised |-> insert(target, entry.id, entry.o).dup]
    ELSE [coll |-> target, raised |-> FALSE]

\* the 'i' branch: the DuplicateKeyError is swallowed
replay_insert(entry, shard_key, source, target) ==
    IF entry.id \in ShardIds(source, shard_key)
    THEN [coll |-> insert(target, entry.id, entry.o).coll, raised |-> FALSE]
    ELSE [coll |-> target, raised |-> FALSE]

\* the 'u' branch: the current source document is replayed unless it
\* equals the recorded payload
replay_update(entry, shard_key, source, target) ==
    IF /\ entry.id \in ShardIds(source, shard_key)
       /\ ~same_as_payload(source[entry.id], entry.o)
    THEN [coll |-> [target EXCEPT ![entry.id] = source[entry.id]],
          raised |-> FALSE]
    ELSE [coll |-> target, raised |-> FALSE]

\* the 'd' branch deleting only what the source no longer holds
replay_delete_if_gone_at_source(entry, shard_key, source, target) ==
    IF /\ entry.id \in ShardIds(target, shard_key)
       /\ source[entry.id] = NoDoc
    THEN [coll |-> [target EXCEPT ![entry.id] = NoDoc], raised |-> FALSE]
    ELSE [coll |-> target, raised |-> FALSE]

\* the 'd' branch: only the destination is consulted
replay_delete(entry, shard_key, source, target) ==
    IF entry.id \in ShardIds(target, shard_key)
    THEN [coll |-> [target EXCEPT ![entry.id] = NoDoc], raised |-> FALSE]
    ELSE [coll |-> target, raised |-> FALSE]

replay_oplog_entry(entry, shard_key, source, target) ==
    IF entry.op = "i" THEN replay_insert(entry, shard_key, source, target)
    ELSE IF entry.op = "u"
         THEN replay_update(entry, shard_key, source, target)
    ELSE IF entry.op = "d"
         THEN replay_delete(entry, shard_key, source, target)
    ELSE [coll |-> target, raised |-> FALSE]

\* the window check left out
oplog_window_unchecked(log, pos) == TRUE

\* _oplog_still_contains_ts(source, oplog_pos)
oplog_still_contains_ts(log, pos) == pos >= Head(log).ts

\* tail_oplog_for_collection: the entries with ts >= from of our namespace,
\* in natural order
tail_oplog_for_collection(log, from) ==
    SelectSeq(log, LAMBDA e : e.ts >= from /\ e.ns = "coll")

\* _sync_from_oplog lines 229-237 with no write in between: the entries of
\* the cursor replayed in order, stopping at the first that raises
RECURSIVE replay_all(_, _, _, _)
replay_all(entries, shard_key, source, target) ==
    IF entries = <<>> THEN [coll |-> target, raised |-> FALSE]
    ELSE LET r == replay_oplog_entry(Head(entries), shard_key, source, target)
         IN  IF r.raised THEN r
             ELSE replay_all(Tail(entries), shard_key, source, r.coll)

sync_from_oplog(log, from, shard_key, source, target) ==
    replay_all(tail_oplog_for_collection(log, from), shard_key, source, target)

\* every scan reads the hidden secondary when one is configured
get_source_collection_always_hidden(use_hidden) ==
    IF hidden THEN secondary ELSE primary

\* the collection a scan reads: the hidden secondary when one is configured
\* and asked for, else the primary
get_source_collection_for_reading(use_hidden) ==
    IF use_hidden /\ hidden THEN secondary ELSE primary

\* the ts of the most recent oplog entry on the read node
most_recent_ts == IF hidden THEN sec_ts ELSE oplog[Len(oplog)].ts

\* a replica applying one oplog entry to its copy of the collection
Apply(coll, e) ==
    IF e.ns # "coll" THEN coll
    ELSE IF e.op = "d" THEN [coll EXCEPT ![e.id] = NoDoc]
    ELSE IF e.o.form = "doc"
         THEN [coll EXCEPT ![e.id] = [sf |-> e.o.sf, v |-> e.o.v]]
    ELSE [coll EXCEPT ![e.id] = [@ EXCEPT !.v = e.o.v]]

NextTs == oplog[Len(oplog)].ts + 1


(* --------------------- routing metadata store -------------------------- *)
\* metadata.are_migrations_happening()
are_migrations_happening == \E s \in ShardKeys : status[s] \in MIGRATION_PHASES

\* api.get_caching_duration()
get_caching_duration == CachingDuration

\* api.start_migration(collection, shard_key, new_location)
start_migration(s, loc) ==
    /\ status' = [status EXCEPT ![s] = MIGRATING_COPY]
    /\ new_location' = [new_location EXCEPT ![s] = loc]
    /\ UNCHANGED location
    /\ status_log' = [status_log EXCEPT ![s] = Append(@, MIGRATING_COPY)]

\* api.set_shard_to_migration_status(collection, shard_key, status)
set_shard_to_migration_status(s, st) ==
    /\ status' = [status EXCEPT ![s] = st]
    /\ UNCHANGED <<location, new_location>>
    /\ status_log' = [status_log EXCEPT ![s] = Append(@, st)]

\* api.set_shard_at_rest(collection, shard_key, location, force=True)
set_shard_at_rest(s, loc) ==
    /\ status' = [status EXCEPT ![s] = AT_REST]
    /\ location' = [location EXCEPT ![s] = loc]
    /\ new_location' = [new_location EXCEPT ![s] = "none"]
    /\ status_log' = [status_log EXCEPT ![s] = Append(@, AT_REST)]

(* ------------------------------ Init ----------------------------------- *)
\* the source collection starts empty, or with every _id holding a document
\* of shard 1
InitColls ==
    {[i \in Ids |-> IF i \in S THEN [sf |-> 1, v |-> "a"] ELSE NoDoc] :
        S \in {{}, Ids}}

\* the clusters before any migration: the hidden secondary has caught up,
\* the destination is empty
InitClusters ==
    /\ primary \in InitColls
    /\ secondary = primary
    /\ oplog = <<InitEntry>>
    /\ sec_ts = 1
    /\ hidden \in BOOLEAN
    /\ dest = EmptyColl
    /\ target_key = {"_id"}

\* no recovery helper has been called
NoFix ==
    [helper |-> "none", pc |-> "idle", shard |-> 0, cursor |-> 0, batch |-> <<>>,
     use_hidden_secondary |-> TRUE, deleted |-> 0, delete_batch_size |-> 1,
     location |-> "none", new_location |-> "none", exception |-> "none",
     quiet |-> FALSE, dest0 |-> EmptyColl]

\* every shard at rest at the source, no manager built, no thread started
InitState ==
    /\ status = [s \in ShardKeys |-> AT_REST]
    /\ location = [s \in ShardKeys |-> SourceLoc]
    /\ new_location = [s \in ShardKeys |-> "none"]
    /\ pc = [s \in ShardKeys |-> "none"]
    /\ oplog_pos = [s \in ShardKeys |-> 0]
    /\ sync_pos = [s \in ShardKeys |-> 0]
    /\ cursor = [s \in ShardKeys |-> 0]
    /\ batch = [s \in ShardKeys |-> <<>>]
    /\ sync_call = [s \in ShardKeys |-> "none"]
    /\ start_sync_time = [s \in ShardKeys |-> 0]
    /\ use_hidden_secondary = [s \in ShardKeys |-> TRUE]
    /\ exception = [s \in ShardKeys |-> "none"]
    /\ phase = [s \in ShardKeys |-> "none"]
    /\ inserted = [s \in ShardKeys |-> 0]
    /\ deleted = [s \in ShardKeys |-> 0]
    /\ insert_batch_size = [s \in ShardKeys |-> 1]
    /\ delete_batch_size = [s \in ShardKeys |-> 1]
    /\ refused = [s \in ShardKeys |-> FALSE]
    /\ poll_pc = [s \in ShardKeys |-> "idle"]
    /\ poll_result = [s \in ShardKeys |-> "none"]
    /\ now = 0
    /\ status_log = [s \in ShardKeys |-> <<>>]
    /\ del_passes = [s \in ShardKeys |-> 0]
    /\ sync_persisted_at = [s \in ShardKeys |-> 0]
    /\ paused_at = [s \in ShardKeys |-> 0]
    /\ final_sweep = [s \in ShardKeys |-> EmptyColl]
    /\ written_p2 = [s \in ShardKeys |-> {}]
    /\ written_post = [s \in ShardKeys |-> {}]
    /\ written_late = [s \in ShardKeys |-> FALSE]
    /\ to_remove = [s \in ShardKeys |-> {}]
    /\ held = [s \in ShardKeys |-> {}]
    /\ fix = NoFix

\* one caller asks for the migration of shard 1 while the application writes
Init ==
    /\ InitState
    /\ InitClusters
    /\ callers = {1}
    /\ writes_left = MaxWrites
    /\ truncs_left = MaxTruncate

\* callers ask for the migration of every shard; the application is quiet
InitCallers ==
    /\ InitState
    /\ InitClusters
    /\ callers = ShardKeys
    /\ writes_left = 0
    /\ truncs_left = 0

(* --------------------------- environment ------------------------------- *)
\* the environment is observed only while a worker thread runs
WorkerRunning == \E s \in ShardKeys : pc[s] \notin {"none", "stopped"}

\* every write on the source primary is logged in its oplog
Logged(op, id, o) ==
    [ts |-> NextTs, ns |-> "coll", op |-> op, id |-> id, o |-> o]

\* history: the documents in ids have left the source
NoteRemoved(ids) ==
    to_remove' = [s \in ShardKeys |-> to_remove[s] \ ids]

\* history of the application's writes on the source: the ids written since
\* the second delete pass opened its cursor, those written since it
\* returned, and whether a write came after the shard was persisted as paused
NoteWrite(ids) ==
    /\ written_post' = [s \in ShardKeys |->
            IF /\ ~use_hidden_secondary[s]
               /\ pc[s] \in {"del_done", "at_rest", "complete", "cleanup"}
            THEN written_post[s] \cup ids ELSE written_post[s]]
    /\ written_p2' = [s \in ShardKeys |->
            IF /\ ~use_hidden_secondary[s]
               /\ pc[s] \in {"del_scan", "del_write", "del_done", "at_rest",
                             "complete", "cleanup"}
            THEN written_p2[s] \cup ids ELSE written_p2[s]]
    /\ written_late' = [s \in ShardKeys |->
            \/ written_late[s]
            \/ status[s] \in {POST_MIGRATION_PAUSED_AT_DESTINATION,
                              POST_MIGRATION_DELETE}
            \/ location[s] = DestLoc]

WriterInsert(id, sf, v) ==
    /\ WorkerRunning
    /\ writes_left > 0
    /\ primary[id] = NoDoc
    /\ primary' = [primary EXCEPT ![id] = [sf |-> sf, v |-> v]]
    /\ oplog' = Append(oplog, Logged("i", id, [form |-> "doc", sf |-> sf, v |-> v]))
    /\ writes_left' = writes_left - 1
    /\ NoteWrite({id})
    /\ UNCHANGED <<meta_vars, hidden, secondary, sec_ts, dest, thread_vars,
                   manager_vars, caller_vars, now, truncs_left, status_log,
                   del_passes, sync_persisted_at, paused_at, final_sweep>>
    /\ UNCHANGED fix
    /\ UNCHANGED target_key
    /\ UNCHANGED to_remove
    /\ UNCHANGED held

\* an update of v, logged as a modifier ($set) or as the full post-image
WriterUpdate(id, v, form) ==
    /\ WorkerRunning
    /\ writes_left > 0
    /\ primary[id] # NoDoc
    /\ primary[id].v # v
    /\ primary' = [primary EXCEPT ![id] = [@ EXCEPT !.v = v]]
    /\ oplog' = Append(oplog,
            Logged("u", id, [form |-> form,
                             sf |-> IF form = "doc" THEN primary[id].sf ELSE 0,
                             v |-> v]))
    /\ writes_left' = writes_left - 1
    /\ NoteWrite({id})
    /\ UNCHANGED <<meta_vars, hidden, secondary, sec_ts, dest, thread_vars,
                   manager_vars, caller_vars, now, truncs_left, status_log,
                   del_passes, sync_persisted_at, paused_at, final_sweep>>
    /\ UNCHANGED fix
    /\ UNCHANGED target_key
    /\ UNCHANGED to_remove
    /\ UNCHANGED held

WriterDelete(id) ==
    /\ WorkerRunning
    /\ writes_left > 0
    /\ primary[id] # NoDoc
    /\ primary' = [primary EXCEPT ![id] = NoDoc]
    /\ oplog' = Append(oplog, Logged("d", id, [form |-> "none", sf |-> 0, v |-> "-"]))
    /\ writes_left' = writes_left - 1
    /\ NoteWrite({id})
    /\ UNCHANGED <<meta_vars, hidden, secondary, sec_ts, dest, thread_vars,
                   manager_vars, caller_vars, now, truncs_left, status_log,
                   del_passes, sync_persisted_at, paused_at, final_sweep>>
    /\ UNCHANGED fix
    /\ UNCHANGED target_key
    /\ NoteRemoved({id})
    /\ UNCHANGED held

\* the hidden secondary applies the next oplog entry
Replicate ==
    /\ WorkerRunning
    /\ hidden
    /\ \E k \in 1 .. Len(oplog) :
        /\ oplog[k].ts = sec_ts + 1
        /\ secondary' = Apply(secondary, oplog[k])
        /\ sec_ts' = oplog[k].ts
    /\ UNCHANGED <<meta_vars, primary, oplog, hidden, dest, thread_vars,
                   manager_vars, caller_vars, env_vars, hist_vars>>
    /\ UNCHANGED fix
    /\ UNCHANGED target_key
    /\ UNCHANGED to_remove
    /\ UNCHANGED held

\* the capped oplog drops its oldest entry (never one that the hidden
\* secondary has still to apply)
Truncate ==
    /\ WorkerRunning
    /\ truncs_left > 0
    /\ Len(oplog) > 1
    /\ hidden => Head(oplog).ts <= sec_ts
    /\ oplog' = Tail(oplog)
    /\ truncs_left' = truncs_left - 1
    /\ UNCHANGED <<meta_vars, primary, hidden, secondary, sec_ts, dest,
                   thread_vars, manager_vars, caller_vars, now, writes_left,
                   hist_vars>>
    /\ UNCHANGED fix
    /\ UNCHANGED target_key
    /\ UNCHANGED to_remove
    /\ UNCHANGED held

\* the wall clock; only the sync wait of run() reads it
Tick ==
    /\ \E s \in ShardKeys :
        /\ pc[s] \in {"sync_set_status", "sync_check", "sync_tail", "wait"}
        /\ sync_call[s] # "final"
        /\ now < start_sync_time[s] + get_caching_duration
    /\ now' = now + 1
    /\ UNCHANGED <<meta_vars, source_vars, dest, thread_vars, manager_vars,
                   caller_vars, writes_left, truncs_left, hist_vars>>
    /\ UNCHANGED fix
    /\ UNCHANGED target_key
    /\ UNCHANGED to_remove
    /\ UNCHANGED held


(* ------------------------ the caller thread ---------------------------- *)
\* the guard left out
begin_migration_unguarded == FALSE

\* _begin_migration line 489: the single-migration guard
begin_migration_guard == are_migrations_happening

\* do_migration -> _begin_migration: the guard, then the manager is built
\* and its thread started
do_migration(s, loc, ibs, dbs) ==
    /\ s \in callers
    /\ pc[s] = "none"
    /\ IF begin_migration_guard
       THEN /\ refused' = [refused EXCEPT ![s] = TRUE]
            /\ UNCHANGED <<pc, insert_batch_size, delete_batch_size>>
       ELSE /\ pc' = [pc EXCEPT ![s] = "start"]
            /\ insert_batch_size' = [insert_batch_size EXCEPT ![s] = ibs]
            /\ delete_batch_size' = [delete_batch_size EXCEPT ![s] = dbs]
            /\ UNCHANGED refused
    /\ UNCHANGED <<meta_vars, source_vars, dest, oplog_pos, sync_pos, cursor,
                   batch, sync_call, start_sync_time, use_hidden_secondary,
                   exception, phase, inserted, deleted, callers, poll_pc,
                   poll_result, env_vars, hist_vars>>
    /\ UNCHANGED fix
    /\ UNCHANGED target_key
    /\ UNCHANGED to_remove
    /\ UNCHANGED held

\* the caller thread assigns manager.insert_batch_size or
\* manager.delete_batch_size while the worker's loop runs (lines 106-109,
\* 312-315)
TuneBatchSize(s, ibs, dbs) ==
    /\ pc[s] \in {"copy_scan", "copy_write", "del_scan", "del_write"}
    /\ <<ibs, dbs>> # <<insert_batch_size[s], delete_batch_size[s]>>
    /\ insert_batch_size' = [insert_batch_size EXCEPT ![s] = ibs]
    /\ delete_batch_size' = [delete_batch_size EXCEPT ![s] = dbs]
    /\ UNCHANGED <<meta_vars, source_vars, dest, thread_vars, phase, inserted,
                   deleted, caller_vars, env_vars, hist_vars, fix>>
    /\ UNCHANGED target_key
    /\ UNCHANGED to_remove
    /\ UNCHANGED held

\* Thread.is_alive()
is_alive(s) == pc[s] \notin {"none", "stopped"}

\* is_finished, line 443: the captured exception is raised on the caller
is_finished_exception(s) ==
    /\ pc[s] # "none"
    /\ poll_pc[s] = "idle"
    /\ IF exception[s] # "none"
       THEN /\ poll_result' = [poll_result EXCEPT ![s] = "raised"]
            /\ UNCHANGED poll_pc
       ELSE /\ poll_pc' = [poll_pc EXCEPT ![s] = "is_alive"]
            /\ UNCHANGED poll_result
    /\ UNCHANGED <<meta_vars, source_vars, dest, thread_vars, manager_vars,
                   callers, refused, env_vars, hist_vars>>
    /\ UNCHANGED fix
    /\ UNCHANGED target_key
    /\ UNCHANGED to_remove
    /\ UNCHANGED held

\* is_finished, line 448: return not is_alive()
is_finished_alive(s) ==
    /\ poll_pc[s] = "is_alive"
    /\ poll_pc' = [poll_pc EXCEPT ![s] = "idle"]
    /\ poll_result' = [poll_result EXCEPT ![s] =
            IF is_alive(s) THEN @ ELSE "True"]
    /\ UNCHANGED <<meta_vars, source_vars, dest, thread_vars, manager_vars,
                   callers, refused, env_vars, hist_vars>>
    /\ UNCHANGED fix
    /\ UNCHANGED target_key
    /\ UNCHANGED to_remove
    /\ UNCHANGED held

(* --------------------- ShardMovementThread.run ------------------------- *)
Cursors == {"copy_cursor", "sync_cursor", "delete_cursor"}
Connections == {"connections", "hidden_connections"}

\* find(...) / get_connection(...): the worker holds one thing more
acquire(s, things) == held' = [held EXCEPT ![s] = @ \cup things]

\* cursor.close() / close_thread_connections(...)
release(s, things) == held' = [held EXCEPT ![s] = @ \ things]

\* the exception is lost instead of being kept on the thread
RaiseUncaptured(s, what) ==
    /\ UNCHANGED exception
    /\ pc' = [pc EXCEPT ![s] = "cleanup"]

\* except Exception: self.exception = sys.exc_info(); raise
Raise(s, what) ==
    /\ exception' = [exception EXCEPT ![s] = what]
    /\ pc' = [pc EXCEPT ![s] = "cleanup"]

\* lines 339-341: set_phase('copy'); api.start_migration(...)
RunStart(s) ==
    /\ pc[s] = "start"
    /\ phase' = [phase EXCEPT ![s] = "copy"]
    /\ start_migration(s, DestLoc)
    /\ pc' = [pc EXCEPT ![s] = "get_oplog_pos"]
    /\ UNCHANGED <<source_vars, dest, oplog_pos, sync_pos, cursor, batch,
                   sync_call, start_sync_time, use_hidden_secondary, exception,
                   inserted, deleted, insert_batch_size, delete_batch_size,
                   caller_vars, env_vars, del_passes, sync_persisted_at,
                   paused_at, final_sweep, written_p2, written_post,
                   written_late>>
    /\ UNCHANGED fix
    /\ UNCHANGED target_key
    /\ UNCHANGED to_remove
    /\ acquire(s, {"connections"})

\* lines 343-345: oplog_pos = _get_oplog_pos(...)
get_oplog_pos(s) ==
    /\ pc[s] = "get_oplog_pos"
    /\ oplog_pos' = [oplog_pos EXCEPT ![s] = most_recent_ts]
    /\ pc' = [pc EXCEPT ![s] = "copy_begin"]
    /\ UNCHANGED <<meta_vars, source_vars, dest, sync_pos, cursor, batch,
                   sync_call, start_sync_time, use_hidden_secondary, exception,
                   manager_vars, caller_vars, env_vars, hist_vars>>
    /\ UNCHANGED fix
    /\ UNCHANGED target_key
    /\ UNCHANGED to_remove
    /\ acquire(s, IF hidden THEN {"hidden_connections"} ELSE {})

\* the copy entered without its precondition
do_copy_begin_unchecked(s) ==
    /\ pc[s] = "copy_begin"
    /\ cursor' = [cursor EXCEPT ![s] = 0]
    /\ batch' = [batch EXCEPT ![s] = <<>>]
    /\ pc' = [pc EXCEPT ![s] = "copy_scan"]
    /\ UNCHANGED <<meta_vars, source_vars, dest, oplog_pos, sync_pos,
                   sync_call, start_sync_time, use_hidden_secondary, exception,
                   manager_vars, caller_vars, env_vars, hist_vars, fix,
                   target_key, to_remove>>
    /\ acquire(s, {"copy_cursor"})

\* _do_copy lines 85-103: the precondition, then the cursor is opened
do_copy_begin(s) ==
    /\ pc[s] = "copy_begin"
    /\ IF status[s] # MIGRATING_COPY
       THEN /\ Raise(s, "Shard not in copy state (phase 1)")
            /\ UNCHANGED <<cursor, batch>>
       ELSE /\ cursor' = [cursor EXCEPT ![s] = 0]
            /\ batch' = [batch EXCEPT ![s] = <<>>]
            /\ pc' = [pc EXCEPT ![s] = "copy_scan"]
            /\ UNCHANGED exception
    /\ UNCHANGED <<meta_vars, source_vars, dest, oplog_pos, sync_pos,
                   sync_call, start_sync_time, use_hidden_secondary,
                   manager_vars, caller_vars, env_vars, hist_vars>>
    /\ UNCHANGED fix
    /\ UNCHANGED target_key
    /\ UNCHANGED to_remove
    /\ IF pc'[s] = "copy_scan"
       THEN acquire(s, {"copy_cursor"}) ELSE UNCHANGED held

\* batched_cursor_iterator: one turn of `for record in cursor`, or the end
\* of the cursor; `size` is batch_size_fn() and `after` the step that
\* follows the loop over the batches
batched_cursor_iterator(s, coll, size, write, after) ==
    LET id == cursor_next(coll, s, cursor[s]) IN
    IF id # 0
    THEN /\ batch' = [batch EXCEPT ![s] = Append(@, [id |-> id, doc |-> coll[id]])]
         /\ cursor' = [cursor EXCEPT ![s] = id]
         /\ pc' = [pc EXCEPT ![s] =
                IF Len(batch[s]) + 1 >= size THEN write ELSE pc[s]]
    ELSE /\ UNCHANGED <<batch, cursor>>
         /\ pc' = [pc EXCEPT ![s] = IF Len(batch[s]) > 0 THEN write ELSE after]

\* line 60: batch_size_fn() is called after every append, so the calls made
\* for the batch being accumulated number its records
batch_size_fn_calls(s) == Len(batch[s])

\* _do_copy line 108: the copy loop pulls the next batch
do_copy_scan(s) ==
    /\ pc[s] = "copy_scan"
    /\ batched_cursor_iterator(s, get_source_collection_for_reading(TRUE),
                               insert_batch_size[s], "copy_write", "sync_begin")
    /\ UNCHANGED <<meta_vars, source_vars, dest, oplog_pos, sync_pos,
                   sync_call, start_sync_time, use_hidden_secondary, exception,
                   manager_vars, caller_vars, env_vars, hist_vars>>
    /\ UNCHANGED fix
    /\ UNCHANGED target_key
    /\ UNCHANGED to_remove
    /\ IF pc'[s] = "sync_begin"
       THEN release(s, {"copy_cursor"}) ELSE UNCHANGED held

\* _do_copy lines 111-118: bulk_write of the batch, then inc_inserted
do_copy_write(s) ==
    /\ pc[s] = "copy_write"
    /\ LET result == batch_of_upsert_ops(dest, batch[s], target_key) IN
        /\ dest' = result.coll
        /\ IF result.raised
           THEN /\ Raise(s, "BulkWriteError")
                /\ UNCHANGED <<inserted, batch>>
           ELSE /\ inserted' = [inserted EXCEPT ![s] =
                        @ + nUpserted(dest, batch[s], target_key)]
                /\ batch' = [batch EXCEPT ![s] = <<>>]
                /\ pc' = [pc EXCEPT ![s] = "copy_scan"]
                /\ UNCHANGED exception
    /\ UNCHANGED <<meta_vars, source_vars, oplog_pos, sync_pos, cursor,
                   sync_call, start_sync_time, use_hidden_secondary,
                   phase, deleted, insert_batch_size, delete_batch_size,
                   caller_vars, env_vars, hist_vars>>
    /\ UNCHANGED fix
    /\ UNCHANGED target_key
    /\ UNCHANGED to_remove
    /\ IF pc'[s] = "cleanup"
       THEN release(s, {"copy_cursor"}) ELSE UNCHANGED held

\* lines 351-352: set_phase('sync'); start_sync_time = time.time()
RunSyncBegin(s) ==
    /\ pc[s] = "sync_begin"
    /\ phase' = [phase EXCEPT ![s] = "sync"]
    /\ start_sync_time' = [start_sync_time EXCEPT ![s] = now]
    /\ pc' = [pc EXCEPT ![s] = "sync_set_status"]
    /\ UNCHANGED <<meta_vars, source_vars, dest, oplog_pos, sync_pos, cursor,
                   batch, sync_call, use_hidden_secondary, exception, inserted,
                   deleted, insert_batch_size, delete_batch_size, caller_vars,
                   env_vars, hist_vars>>
    /\ UNCHANGED fix
    /\ UNCHANGED target_key
    /\ UNCHANGED to_remove
    /\ UNCHANGED held

\* lines 353-355: the shard is persisted as MIGRATING_SYNC
RunSyncStatus(s) ==
    /\ pc[s] = "sync_set_status"
    /\ set_shard_to_migration_status(s, MIGRATING_SYNC)
    /\ sync_call' = [sync_call EXCEPT ![s] = "first"]
    /\ pc' = [pc EXCEPT ![s] = "sync_check"]
    /\ sync_persisted_at' = [sync_persisted_at EXCEPT ![s] = now]
    /\ UNCHANGED <<source_vars, dest, oplog_pos, sync_pos, cursor, batch,
                   start_sync_time, use_hidden_secondary, exception,
                   manager_vars, caller_vars, env_vars, del_passes, paused_at,
                   final_sweep, written_p2, written_post,
                   written_late>>
    /\ UNCHANGED fix
    /\ UNCHANGED target_key
    /\ UNCHANGED to_remove
    /\ UNCHANGED held

\* _sync_from_oplog lines 218-229: the oplog window check, then the
\* tailing cursor is opened at oplog_pos
sync_from_oplog_begin(s) ==
    /\ pc[s] = "sync_check"
    /\ IF ~oplog_still_contains_ts(oplog, oplog_pos[s])
       THEN /\ Raise(s, "Cannot sync from oplog as oplog_pos is not in it")
            /\ UNCHANGED <<sync_pos, cursor>>
       ELSE /\ sync_pos' = [sync_pos EXCEPT ![s] = oplog_pos[s]]
            /\ cursor' = [cursor EXCEPT ![s] = oplog_pos[s]]
            /\ pc' = [pc EXCEPT ![s] = "sync_tail"]
            /\ UNCHANGED exception
    /\ UNCHANGED <<meta_vars, source_vars, dest, oplog_pos, batch, sync_call,
                   start_sync_time, use_hidden_secondary, manager_vars,
                   caller_vars, env_vars, hist_vars>>
    /\ UNCHANGED fix
    /\ UNCHANGED target_key
    /\ UNCHANGED to_remove
    /\ IF pc'[s] = "sync_tail"
       THEN acquire(s, {"sync_cursor"}) ELSE UNCHANGED held

\* the last replayed ts, or nothing (0) when the cursor was empty
sync_return_last_replayed(s) ==
    IF cursor[s] = oplog_pos[s] THEN 0 ELSE sync_pos[s]

\* the value _sync_from_oplog returns (line 237)
sync_return(s) == sync_pos[s]

\* _sync_from_oplog lines 231-237: one entry of the cursor is replayed, or
\* the cursor is exhausted and the call returns to run() (lines 356, 364, 379)
sync_from_oplog_tail(s) ==
    /\ pc[s] = "sync_tail"
    /\ LET todo == tail_oplog_for_collection(oplog, cursor[s]) IN
       IF todo # <<>>
       THEN LET r == replay_oplog_entry(Head(todo), s, primary, dest) IN
            IF r.raised
            THEN /\ Raise(s, "DuplicateKeyError")
                 /\ UNCHANGED <<dest, sync_pos, cursor, oplog_pos, final_sweep>>
            ELSE /\ dest' = r.coll
                 /\ sync_pos' = [sync_pos EXCEPT ![s] = Head(todo).ts]
                 /\ cursor' = [cursor EXCEPT ![s] = Head(todo).ts + 1]
                 /\ UNCHANGED <<pc, oplog_pos, exception, final_sweep>>
       ELSE /\ oplog_pos' = [oplog_pos EXCEPT ![s] =
                    IF sync_call[s] = "final" THEN @ ELSE sync_return(s)]
            /\ pc' = [pc EXCEPT ![s] =
                    IF sync_call[s] = "final" THEN "delete_begin" ELSE "wait"]
            /\ final_sweep' = [final_sweep EXCEPT ![s] =
                    IF sync_call[s] = "final" THEN ShardDocs(primary, s) ELSE @]
            /\ UNCHANGED <<dest, sync_pos, cursor, exception>>
    /\ UNCHANGED <<meta_vars, source_vars, batch, sync_call, start_sync_time,
                   use_hidden_secondary, manager_vars, caller_vars, env_vars,
                   status_log, del_passes, sync_persisted_at, paused_at,
                   written_p2, written_post,
                   written_late>>
    /\ UNCHANGED fix
    /\ UNCHANGED target_key
    /\ UNCHANGED to_remove
    /\ IF pc'[s] # "sync_tail"
       THEN release(s, {"sync_cursor"}) ELSE UNCHANGED held

\* the wait loop never ends
sync_wait_never_over(s) == FALSE

\* line 362: while time.time() < start_sync_time + get_caching_duration()
sync_wait_over(s) == ~(now < start_sync_time[s] + get_caching_duration)

\* lines 362-365: the wait loop sleeps and syncs again, or ends
RunWait(s) ==
    /\ pc[s] = "wait"
    /\ IF sync_wait_over(s)
       THEN /\ pc' = [pc EXCEPT ![s] = "pause"]
            /\ UNCHANGED sync_call
       ELSE /\ pc' = [pc EXCEPT ![s] = "sync_check"]
            /\ sync_call' = [sync_call EXCEPT ![s] = "loop"]
    /\ UNCHANGED <<meta_vars, source_vars, dest, oplog_pos, sync_pos, cursor,
                   batch, start_sync_time, use_hidden_secondary, exception,
                   manager_vars, caller_vars, env_vars, hist_vars>>
    /\ UNCHANGED fix
    /\ UNCHANGED target_key
    /\ UNCHANGED to_remove
    /\ UNCHANGED held

\* the final sync entered without persisting the paused status
RunPauseUnpersisted(s) ==
    /\ pc[s] = "pause"
    /\ sync_call' = [sync_call EXCEPT ![s] = "final"]
    /\ pc' = [pc EXCEPT ![s] = "sync_check"]
    /\ paused_at' = [paused_at EXCEPT ![s] = now]
    /\ UNCHANGED <<meta_vars, source_vars, dest, oplog_pos, sync_pos, cursor,
                   batch, start_sync_time, use_hidden_secondary, exception,
                   manager_vars, caller_vars, env_vars, status_log, del_passes,
                   sync_persisted_at, final_sweep, written_p2, written_post,
                   written_late>>
    /\ UNCHANGED fix
    /\ UNCHANGED target_key
    /\ UNCHANGED to_remove
    /\ UNCHANGED held

\* lines 372-380: the shard is persisted as paused, then the final sync
RunPause(s) ==
    /\ pc[s] = "pause"
    /\ set_shard_to_migration_status(s, POST_MIGRATION_PAUSED_AT_DESTINATION)
    /\ sync_call' = [sync_call EXCEPT ![s] = "final"]
    /\ pc' = [pc EXCEPT ![s] = "sync_check"]
    /\ paused_at' = [paused_at EXCEPT ![s] = now]
    /\ UNCHANGED <<source_vars, dest, oplog_pos, sync_pos, cursor, batch,
                   start_sync_time, use_hidden_secondary, exception,
                   manager_vars, caller_vars, env_vars, del_passes,
                   sync_persisted_at, final_sweep, written_p2, written_post,
                   written_late>>
    /\ UNCHANGED fix
    /\ UNCHANGED target_key
    /\ UNCHANGED to_remove
    /\ UNCHANGED held

\* lines 383-387: set_phase('delete'); the shard is persisted as
\* POST_MIGRATION_DELETE
RunDeleteStatus(s) ==
    /\ pc[s] = "delete_begin"
    /\ phase' = [phase EXCEPT ![s] = "delete"]
    /\ set_shard_to_migration_status(s, POST_MIGRATION_DELETE)
    /\ use_hidden_secondary' = [use_hidden_secondary EXCEPT ![s] = TRUE]
    /\ pc' = [pc EXCEPT ![s] = "del_check"]
    /\ UNCHANGED <<source_vars, dest, oplog_pos, sync_pos, cursor, batch,
                   sync_call, start_sync_time, exception, inserted, deleted,
                   insert_batch_size, delete_batch_size, caller_vars, env_vars,
                   del_passes, sync_persisted_at, paused_at, final_sweep,
                   written_p2, written_post,
                   written_late>>
    /\ UNCHANGED fix
    /\ UNCHANGED target_key
    /\ to_remove' = [to_remove EXCEPT ![s] = ShardIds(primary, s)]
    /\ UNCHANGED held

\* _delete_source_data lines 288-309: the precondition, then the cursor of
\* _ids is opened on the read node
delete_source_data_begin(s) ==
    /\ pc[s] = "del_check"
    /\ IF status[s] # POST_MIGRATION_DELETE
       THEN /\ Raise(s, "Shard not in delete state")
            /\ UNCHANGED <<cursor, batch, written_p2>>
       ELSE /\ cursor' = [cursor EXCEPT ![s] = 0]
            /\ batch' = [batch EXCEPT ![s] = <<>>]
            /\ pc' = [pc EXCEPT ![s] = "del_scan"]
            /\ written_p2' = [written_p2 EXCEPT ![s] = {}]
            /\ UNCHANGED exception
    /\ UNCHANGED <<meta_vars, source_vars, dest, oplog_pos, sync_pos,
                   sync_call, start_sync_time, use_hidden_secondary,
                   manager_vars, caller_vars, env_vars, status_log, del_passes,
                   sync_persisted_at, paused_at, final_sweep, written_post,
                   written_late>>
    /\ UNCHANGED fix
    /\ UNCHANGED target_key
    /\ UNCHANGED to_remove
    /\ IF pc'[s] = "del_scan"
       THEN acquire(s, {"delete_cursor"}) ELSE UNCHANGED held

\* _delete_source_data line 314: the delete loop pulls the next batch; when
\* the cursor ends run() goes on to the second pass (line 396) or to line 401
delete_source_data_scan(s) ==
    /\ pc[s] = "del_scan"
    /\ batched_cursor_iterator(
            s, get_source_collection_for_reading(use_hidden_secondary[s]),
            delete_batch_size[s], "del_write", "del_done")
    /\ UNCHANGED <<meta_vars, source_vars, dest, oplog_pos, sync_pos,
                   sync_call, start_sync_time, use_hidden_secondary, exception,
                   manager_vars, caller_vars, env_vars, hist_vars>>
    /\ UNCHANGED fix
    /\ UNCHANGED target_key
    /\ UNCHANGED to_remove
    /\ IF pc'[s] = "del_done"
       THEN release(s, {"delete_cursor"}) ELSE UNCHANGED held

\* the oplog entries of delete_many({'_id': {'$in': ids}}) on the primary
RECURSIVE delete_entries(_, _)
delete_entries(ids, ts) ==
    IF ids = {} THEN <<>>
    ELSE LET i == CHOOSE x \in ids : \A y \in ids : x <= y IN
         <<[ts |-> ts, ns |-> "coll", op |-> "d", id |-> i,
            o |-> [form |-> "none", sf |-> 0, v |-> "-"]]>>
         \o delete_entries(ids \ {i}, ts + 1)

\* the documents delete_many({'_id': {'$in': _ids}}) removes (line 317)
delete_many_ids(coll, records) ==
    {i \in Ids : coll[i] # NoDoc /\ \E k \in 1 .. Len(records) : records[k].id = i}

\* _delete_source_data lines 316-321: delete_many on the primary, then
\* inc_deleted
delete_source_data_write(s) ==
    /\ pc[s] = "del_write"
    /\ LET gone == delete_many_ids(primary, batch[s]) IN
        /\ primary' = [i \in Ids |-> IF i \in gone THEN NoDoc ELSE primary[i]]
        /\ oplog' = oplog \o delete_entries(gone, NextTs)
        /\ NoteRemoved(gone)
        /\ deleted' = [deleted EXCEPT ![s] = @ + Cardinality(gone)]
    /\ batch' = [batch EXCEPT ![s] = <<>>]
    /\ pc' = [pc EXCEPT ![s] = "del_scan"]
    /\ UNCHANGED <<meta_vars, hidden, secondary, sec_ts, dest, oplog_pos,
                   sync_pos, cursor, sync_call, start_sync_time,
                   use_hidden_secondary, exception, phase, inserted,
                   insert_batch_size, delete_batch_size, caller_vars, env_vars,
                   hist_vars>>
    /\ UNCHANGED fix
    /\ UNCHANGED target_key
    /\ UNCHANGED held

\* the delete phase ended after the pass over the hidden secondary
RunDeleteSinglePass(s) ==
    /\ pc[s] = "del_done"
    /\ del_passes' = [del_passes EXCEPT ![s] = @ + 1]
    /\ pc' = [pc EXCEPT ![s] = "at_rest"]
    /\ UNCHANGED <<meta_vars, source_vars, dest, oplog_pos, sync_pos, cursor,
                   batch, sync_call, start_sync_time, use_hidden_secondary,
                   exception, manager_vars, caller_vars, env_vars, status_log,
                   sync_persisted_at, paused_at, final_sweep, written_p2,
                   written_post, written_late>>
    /\ UNCHANGED fix
    /\ UNCHANGED target_key
    /\ UNCHANGED to_remove
    /\ UNCHANGED held

\* lines 390-399: a pass has returned; the second pass reads the primary
RunDeletePassDone(s) ==
    /\ pc[s] = "del_done"
    /\ del_passes' = [del_passes EXCEPT ![s] = @ + 1]
    /\ pc' = [pc EXCEPT ![s] =
            IF use_hidden_secondary[s] THEN "del_check" ELSE "at_rest"]
    /\ use_hidden_secondary' = [use_hidden_secondary EXCEPT ![s] = FALSE]
    /\ UNCHANGED <<meta_vars, source_vars, dest, oplog_pos, sync_pos, cursor,
                   batch, sync_call, start_sync_time, exception, manager_vars,
                   caller_vars, env_vars, status_log, sync_persisted_at,
                   paused_at, final_sweep, written_p2, written_post,
                   written_late>>
    /\ UNCHANGED fix
    /\ UNCHANGED target_key
    /\ UNCHANGED to_remove
    /\ UNCHANGED held

\* lines 401-403: api.set_shard_at_rest(..., new_location, force=True)
RunAtRest(s) ==
    /\ pc[s] = "at_rest"
    /\ set_shard_at_rest(s, DestLoc)
    /\ pc' = [pc EXCEPT ![s] = "complete"]
    /\ UNCHANGED <<source_vars, dest, oplog_pos, sync_pos, cursor, batch,
                   sync_call, start_sync_time, use_hidden_secondary, exception,
                   manager_vars, caller_vars, env_vars, del_passes,
                   sync_persisted_at, paused_at, final_sweep, written_p2, written_post,
                   written_late>>
    /\ UNCHANGED fix
    /\ UNCHANGED target_key
    /\ UNCHANGED to_remove
    /\ UNCHANGED held

\* line 405: set_phase('complete')
RunComplete(s) ==
    /\ pc[s] = "complete"
    /\ phase' = [phase EXCEPT ![s] = "complete"]
    /\ pc' = [pc EXCEPT ![s] = "cleanup"]
    /\ UNCHANGED <<meta_vars, source_vars, dest, oplog_pos, sync_pos, cursor,
                   batch, sync_call, start_sync_time, use_hidden_secondary,
                   exception, inserted, deleted, insert_batch_size,
                   delete_batch_size, caller_vars, env_vars, hist_vars>>
    /\ UNCHANGED fix
    /\ UNCHANGED target_key
    /\ UNCHANGED to_remove
    /\ UNCHANGED held

\* lines 409-411: the finally block closes the connections; the thread ends
RunFinally(s) ==
    /\ pc[s] = "cleanup"
    /\ pc' = [pc EXCEPT ![s] = "stopped"]
    /\ UNCHANGED <<meta_vars, source_vars, dest, oplog_pos, sync_pos, cursor,
                   batch, sync_call, start_sync_time, use_hidden_secondary,
                   exception, manager_vars, caller_vars, env_vars, hist_vars>>
    /\ UNCHANGED fix
    /\ UNCHANGED target_key
    /\ UNCHANGED to_remove
    /\ release(s, Connections)

\* a database round trip of run() fails (lines 339-403): the error
\* propagates to the except clause
Crash(s) ==
    /\ pc[s] \notin {"none", "complete", "cleanup", "stopped"}
    /\ Raise(s, "OperationFailure")
    /\ UNCHANGED <<meta_vars, source_vars, dest, oplog_pos, sync_pos, cursor,
                   batch, sync_call, start_sync_time, use_hidden_secondary,
                   manager_vars, caller_vars, env_vars, hist_vars, fix>>
    /\ UNCHANGED target_key
    /\ UNCHANGED to_remove
    /\ release(s, Cursors)

\* _do_copy lines 97-100 and _delete_source_data lines 300-306: the cursor
\* has been made by find(...) and _shard_field_id_index (index_information,
\* line 76) fails before the try block is entered
shard_field_id_index_raises(s) ==
    /\ \/ /\ pc[s] = "copy_begin"
          /\ status[s] = MIGRATING_COPY
          /\ acquire(s, {"copy_cursor"})
       \/ /\ pc[s] = "del_check"
          /\ status[s] = POST_MIGRATION_DELETE
          /\ acquire(s, {"delete_cursor"})
    /\ Raise(s, "OperationFailure")
    /\ UNCHANGED <<meta_vars, source_vars, dest, oplog_pos, sync_pos, cursor,
                   batch, sync_call, start_sync_time, use_hidden_secondary,
                   manager_vars, caller_vars, env_vars, hist_vars, fix,
                   target_key, to_remove>>

(* ------------------------ recovery helpers ----------------------------- *)
\* one turn of batched_cursor_iterator over a cursor of the helper: the
\* record appended and whether the batch is yielded, or the end of the cursor
fix_cursor_step(coll, emit, after) ==
    LET id == cursor_next(coll, fix.shard, fix.cursor) IN
    IF id # 0
    THEN [fix EXCEPT
            !.batch = Append(@, [id |-> id, doc |-> coll[id]]),
            !.cursor = id,
            !.pc = IF Len(fix.batch) + 1 >= fix.delete_batch_size
                   THEN emit ELSE @]
    ELSE [fix EXCEPT !.pc = IF Len(fix.batch) > 0 THEN emit ELSE after]

\* fix_failed_pre_delete lines 563-578: the status check, then the cursor
\* of _ids is opened on the destination
fix_failed_pre_delete_begin(s, size) ==
    /\ fix.pc = "idle"
    /\ fix' = IF status[s] \notin MIGRATION_PHASES
              THEN [NoFix EXCEPT !.helper = "pre", !.pc = "raised",
                        !.shard = s,
                        !.exception = "Shard not in migrating phase",
                        !.quiet = (pc[s] = "stopped"),
                        !.dest0 = ShardDocs(dest, s)]
              ELSE [NoFix EXCEPT !.helper = "pre", !.pc = "pre_scan",
                        !.shard = s,
                        !.delete_batch_size = size,
                        !.location = location[s],
                        !.new_location = new_location[s],
                        !.quiet = (pc[s] = "stopped"),
                        !.dest0 = ShardDocs(dest, s)]
    /\ UNCHANGED <<meta_vars, source_vars, dest, thread_vars, manager_vars,
                   caller_vars, env_vars, hist_vars>>
    /\ UNCHANGED target_key
    /\ UNCHANGED to_remove
    /\ UNCHANGED held

\* line 585: the loop pulls the next batch of destination _ids
fix_failed_pre_delete_scan ==
    /\ fix.pc = "pre_scan"
    /\ fix' = fix_cursor_step(dest, "pre_write", "pre_commit")
    /\ UNCHANGED <<meta_vars, source_vars, dest, thread_vars, manager_vars,
                   caller_vars, env_vars, hist_vars>>
    /\ UNCHANGED target_key
    /\ UNCHANGED to_remove
    /\ UNCHANGED held

\* lines 586-600: delete_many on the destination
fix_failed_pre_delete_write ==
    /\ fix.pc = "pre_write"
    /\ LET gone == delete_many_ids(dest, fix.batch) IN
        /\ dest' = [i \in Ids |-> IF i \in gone THEN NoDoc ELSE dest[i]]
        /\ fix' = [fix EXCEPT !.deleted = @ + Cardinality(gone),
                              !.batch = <<>>, !.pc = "pre_scan"]
    /\ UNCHANGED <<meta_vars, source_vars, thread_vars, manager_vars,
                   caller_vars, env_vars, hist_vars>>
    /\ UNCHANGED target_key
    /\ UNCHANGED to_remove
    /\ UNCHANGED held

\* lines 604-605: the shard is set at rest at the location read at line 564
fix_failed_pre_delete_commit ==
    /\ fix.pc = "pre_commit"
    /\ set_shard_at_rest(fix.shard, fix.location)
    /\ fix' = [fix EXCEPT !.pc = "done"]
    /\ UNCHANGED <<source_vars, dest, thread_vars, manager_vars, caller_vars,
                   env_vars, del_passes, sync_persisted_at, paused_at,
                   final_sweep, written_p2, written_post, written_late>>
    /\ UNCHANGED target_key
    /\ UNCHANGED to_remove
    /\ UNCHANGED held

\* fix_failed_during_delete lines 629-641: the status check, then a fresh
\* manager is built
fix_failed_during_delete_begin(s, size) ==
    /\ fix.pc = "idle"
    /\ fix' = IF status[s] # POST_MIGRATION_DELETE
              THEN [NoFix EXCEPT !.helper = "during", !.pc = "raised",
                        !.shard = s,
                        !.exception = "Shard not in POST_MIGRATION_DELETE phase.",
                        !.quiet = (pc[s] = "stopped"),
                        !.dest0 = ShardDocs(dest, s)]
              ELSE [NoFix EXCEPT !.helper = "during", !.pc = "dd_check",
                        !.shard = s,
                        !.delete_batch_size = size,
                        !.location = location[s],
                        !.new_location = new_location[s],
                        !.quiet = (pc[s] = "stopped"),
                        !.dest0 = ShardDocs(dest, s)]
    /\ UNCHANGED <<meta_vars, source_vars, dest, thread_vars, manager_vars,
                   caller_vars, env_vars, hist_vars>>
    /\ UNCHANGED target_key
    /\ UNCHANGED to_remove
    /\ UNCHANGED held

\* _delete_source_data lines 288-309 called from lines 645 and 651: the
\* precondition, then the cursor of _ids is opened on the read node
fix_delete_source_data_begin ==
    /\ fix.pc = "dd_check"
    /\ fix' = IF status[fix.shard] # POST_MIGRATION_DELETE
              THEN [fix EXCEPT !.pc = "raised",
                               !.exception = "Shard not in delete state"]
              ELSE [fix EXCEPT !.cursor = 0, !.batch = <<>>, !.pc = "dd_scan"]
    /\ UNCHANGED <<meta_vars, source_vars, dest, thread_vars, manager_vars,
                   caller_vars, env_vars, hist_vars>>
    /\ UNCHANGED target_key
    /\ UNCHANGED to_remove
    /\ UNCHANGED held

\* _delete_source_data line 314 on behalf of the helper
fix_delete_source_data_scan ==
    /\ fix.pc = "dd_scan"
    /\ fix' = fix_cursor_step(
                get_source_collection_for_reading(fix.use_hidden_secondary),
                "dd_write", "dd_done")
    /\ UNCHANGED <<meta_vars, source_vars, dest, thread_vars, manager_vars,
                   caller_vars, env_vars, hist_vars>>
    /\ UNCHANGED target_key
    /\ UNCHANGED to_remove
    /\ UNCHANGED held

\* _delete_source_data lines 316-321 on behalf of the helper
fix_delete_source_data_write ==
    /\ fix.pc = "dd_write"
    /\ LET gone == delete_many_ids(primary, fix.batch) IN
        /\ primary' = [i \in Ids |-> IF i \in gone THEN NoDoc ELSE primary[i]]
        /\ oplog' = oplog \o delete_entries(gone, NextTs)
        /\ NoteRemoved(gone)
        /\ fix' = [fix EXCEPT !.deleted = @ + Cardinality(gone),
                              !.batch = <<>>, !.pc = "dd_scan"]
    /\ UNCHANGED <<meta_vars, hidden, secondary, sec_ts, dest, thread_vars,
                   manager_vars, caller_vars, env_vars, hist_vars>>
    /\ UNCHANGED target_key
    /\ UNCHANGED held

\* lines 645-654: a pass has returned; the second pass reads the primary
fix_delete_pass_done ==
    /\ fix.pc = "dd_done"
    /\ fix' = IF fix.use_hidden_secondary
              THEN [fix EXCEPT !.use_hidden_secondary = FALSE,
                               !.pc = "dd_check"]
              ELSE [fix EXCEPT !.pc = "dd_commit"]
    /\ UNCHANGED <<meta_vars, source_vars, dest, thread_vars, manager_vars,
                   caller_vars, env_vars, hist_vars>>
    /\ UNCHANGED target_key
    /\ UNCHANGED to_remove
    /\ UNCHANGED held

\* the shard is set at rest where it was
fix_failed_during_delete_commit_in_place ==
    /\ fix.pc = "dd_commit"
    /\ set_shard_at_rest(fix.shard, fix.location)
    /\ fix' = [fix EXCEPT !.pc = "done"]
    /\ UNCHANGED <<source_vars, dest, thread_vars, manager_vars, caller_vars,
                   env_vars, del_passes, sync_persisted_at, paused_at,
                   final_sweep, written_p2, written_post, written_late,
                   target_key, to_remove, held>>

\* line 656: the shard is set at rest at the new_location read at line 634
fix_failed_during_delete_commit ==
    /\ fix.pc = "dd_commit"
    /\ set_shard_at_rest(fix.shard, fix.new_location)
    /\ fix' = [fix EXCEPT !.pc = "done"]
    /\ UNCHANGED <<source_vars, dest, thread_vars, manager_vars, caller_vars,
                   env_vars, del_passes, sync_persisted_at, paused_at,
                   final_sweep, written_p2, written_post, written_late>>
    /\ UNCHANGED target_key
    /\ UNCHANGED to_remove
    /\ UNCHANGED held

fix_failed_pre_delete(s) ==
    \/ \E size \in BatchSizes : fix_failed_pre_delete_begin(s, size)
    \/ fix_failed_pre_delete_scan
    \/ fix_failed_pre_delete_write
    \/ fix_failed_pre_delete_commit

fix_failed_during_delete(s) ==
    \/ \E size \in BatchSizes : fix_failed_during_delete_begin(s, size)
    \/ fix_delete_source_data_begin
    \/ fix_delete_source_data_scan
    \/ fix_delete_source_data_write
    \/ fix_delete_pass_done
    \/ fix_failed_during_delete_commit

(* ------------------------------ Next ----------------------------------- *)
Worker(s) ==
    \/ RunStart(s)
    \/ get_oplog_pos(s)
    \/ do_copy_begin(s)
    \/ do_copy_scan(s)
    \/ do_copy_write(s)
    \/ RunSyncBegin(s)
    \/ RunSyncStatus(s)
    \/ sync_from_oplog_begin(s)
    \/ sync_from_oplog_tail(s)
    \/ RunWait(s)
    \/ RunPause(s)
    \/ RunDeleteStatus(s)
    \/ delete_source_data_begin(s)
    \/ delete_source_data_scan(s)
    \/ delete_source_data_write(s)
    \/ RunDeletePassDone(s)
    \/ RunAtRest(s)
    \/ RunComplete(s)
    \/ RunFinally(s)

Next ==
    \/ \E s \in ShardKeys, bs \in BatchSizes :
            do_migration(s, DestLoc, bs, bs)
    \/ \E s \in ShardKeys : Worker(s)
    \/ \E s \in ShardKeys : is_finished_exception(s)
    \/ \E s \in ShardKeys : is_finished_alive(s)
    \/ \E id \in Ids, sf \in ShardKeys, v \in InsertValues : WriterInsert(id, sf, v)
    \/ \E id \in Ids, v \in Values, form \in {"mod", "doc"} :
            WriterUpdate(id, v, form)
    \/ \E id \in Ids : WriterDelete(id)
    \/ Replicate
    \/ Truncate
    \/ Tick

Spec == Init /\ [][Next]_vars

\* the copy and the first sync of shard 1 under application writes, with a
\* capped oplog that may lose one entry more than in Init; the run is
\* followed up to the return of the first _sync_from_oplog
InitGap ==
    /\ InitState
    /\ InitClusters
    /\ callers = {1}
    /\ writes_left = MaxWrites
    /\ truncs_left = MaxTruncate + 1

NextGap ==
    \/ \E s \in callers, bs \in BatchSizes : do_migration(s, DestLoc, bs, bs)
    \/ \E s \in ShardKeys : RunStart(s)
    \/ \E s \in ShardKeys : get_oplog_pos(s)
    \/ \E s \in ShardKeys : do_copy_begin(s)
    \/ \E s \in ShardKeys : do_copy_scan(s)
    \/ \E s \in ShardKeys : do_copy_write(s)
    \/ \E s \in ShardKeys : RunSyncBegin(s)
    \/ \E s \in ShardKeys : RunSyncStatus(s)
    \/ \E s \in ShardKeys : sync_from_oplog_begin(s)
    \/ \E s \in ShardKeys : sync_from_oplog_tail(s)
    \/ \E s \in ShardKeys : RunFinally(s)
    \/ \E id \in Ids, sf \in ShardKeys, v \in InsertValues : WriterInsert(id, sf, v)
    \/ \E id \in Ids, v \in Values, form \in {"mod", "doc"} :
            WriterUpdate(id, v, form)
    \/ \E id \in Ids : WriterDelete(id)
    \/ Replicate
    \/ Truncate

SpecGap == InitGap /\ [][NextGap]_vars

\* the callers' race: no application writes, no oplog truncation, no polling
NextCallers ==
    \/ \E s \in ShardKeys : do_migration(s, DestLoc, MaxBatch, MaxBatch)
    \/ \E s \in ShardKeys : Worker(s)
    \/ Replicate
    \/ Tick

SpecCallers == InitCallers /\ [][NextCallers]_vars

\* a migration of shard 1 with a quiet application: the worker may fail at
\* any round trip, the caller polls and tunes the batch sizes, and the
\* operator may call one recovery helper at any time
InitRecovery ==
    /\ InitState
    /\ InitClusters
    /\ callers = {1}
    /\ writes_left = 0
    /\ truncs_left = 0

NextRecovery ==
    \/ \E s \in callers, bs \in BatchSizes : do_migration(s, DestLoc, bs, bs)
    \/ \E s \in ShardKeys : Worker(s)
    \/ \E s \in ShardKeys : Crash(s)
    \/ \E s \in ShardKeys : is_finished_exception(s)
    \/ \E s \in ShardKeys : is_finished_alive(s)
    \/ \E s \in ShardKeys, ibs \in BatchSizes, dbs \in BatchSizes :
            TuneBatchSize(s, ibs, dbs)
    \/ \E s \in callers : fix_failed_pre_delete(s)
    \/ \E s \in callers : fix_failed_during_delete(s)
    \/ Replicate
    \/ Tick

SpecRecovery == InitRecovery /\ [][NextRecovery]_vars

\* a migration of shard 1 with a quiet application in which any round trip
\* of the worker may fail, the index lookups of the engines included
NextFailures ==
    \/ \E s \in callers, bs \in BatchSizes : do_migration(s, DestLoc, bs, bs)
    \/ \E s \in ShardKeys : Worker(s)
    \/ \E s \in ShardKeys : Crash(s)
    \/ \E s \in ShardKeys : shard_field_id_index_raises(s)
    \/ Replicate
    \/ Tick

SpecFailures == InitRecovery /\ [][NextFailures]_vars

\* a migration from a quiescent source to a destination whose key list is
\* any of TargetKeys; the documents of shard 1 have _ids below MaxId
CopySources ==
    {c \in [Ids -> Doc \cup {NoDoc}] :
        /\ c[MaxId] = NoDoc \/ c[MaxId].sf # 1
        /\ \A i \in Ids : c[i] # NoDoc /\ c[i].sf # 1 => c[i].v = "a"}

InitCopy ==
    /\ InitState
    /\ primary \in CopySources
    /\ secondary = primary
    /\ oplog = <<InitEntry>>
    /\ sec_ts = 1
    /\ hidden \in BOOLEAN
    /\ dest = EmptyColl
    /\ target_key \in TargetKeys
    /\ callers = {1}
    /\ writes_left = 0
    /\ truncs_left = 0

NextCopy ==
    \/ \E s \in ShardKeys, bs \in BatchSizes :
            do_migration(s, DestLoc, bs, bs)
    \/ \E s \in ShardKeys : Worker(s)
    \/ Replicate
    \/ Tick

SpecCopy == InitCopy /\ [][NextCopy]_vars

\* a migration of shard 1 while the application writes documents of shard 2
\* only; the source starts without documents, with documents of shard 2 or
\* with documents of shard 1.  The worker thread keeps being scheduled and
\* the wall clock keeps advancing; the oplog retains its entries.
InitCollsAnyShard ==
    InitColls \cup {[i \in Ids |-> [sf |-> 2, v |-> "a"]]}

InitQuietShard ==
    /\ InitState
    /\ primary \in InitCollsAnyShard
    /\ secondary = primary
    /\ oplog = <<InitEntry>>
    /\ sec_ts = 1
    /\ hidden \in BOOLEAN
    /\ dest = EmptyColl
    /\ target_key = {"_id"}
    /\ callers = {1}
    /\ writes_left = MaxWrites
    /\ truncs_left = 0

NextQuietShard ==
    \/ \E s \in ShardKeys, bs \in BatchSizes :
            do_migration(s, DestLoc, bs, bs)
    \/ \E s \in ShardKeys : Worker(s)
    \/ \E id \in Ids, v \in InsertValues : WriterInsert(id, 2, v)
    \/ \E id \in Ids, v \in Values, form \in {"mod", "doc"} :
            WriterUpdate(id, v, form)
    \/ \E id \in Ids : WriterDelete(id)
    \/ Replicate
    \/ Tick

SpecQuietShard ==
    /\ InitQuietShard
    /\ [][NextQuietShard]_vars
    /\ WF_vars(\E s \in ShardKeys : Worker(s))
    /\ WF_vars(Tick)


(* ============================== claims ================================= *)
\* the worker of shard s ran to the end of run() without raising
Completed(s) ==
    pc[s] \in {"complete", "cleanup", "stopped"} /\ exception[s] = "none"

IsPrefix(p, q) == Len(p) <= Len(q) /\ \A k \in 1 .. Len(p) : p[k] = q[k]

PhaseSequence ==
    <<MIGRATING_COPY, MIGRATING_SYNC, POST_MIGRATION_PAUSED_AT_DESTINATION,
      POST_MIGRATION_DELETE, AT_REST>>

\* C1: the persisted status of a migrated shard runs through AT_REST ->
\* MIGRATING_COPY -> MIGRATING_SYNC -> POST_MIGRATION_PAUSED_AT_DESTINATION ->
\* POST_MIGRATION_DELETE -> AT_REST with nothing skipped, repeated or
\* revisited; a run that completes has written the whole sequence; and the
\* location is new_location exactly from the final AT_REST write on, which
\* comes after both delete passes.
C1_PhaseSequence ==
    \A s \in ShardKeys :
        /\ IsPrefix(status_log[s], PhaseSequence)
        /\ status[s] = IF status_log[s] = <<>> THEN AT_REST
                       ELSE status_log[s][Len(status_log[s])]
        /\ Completed(s) => status_log[s] = PhaseSequence
        /\ (location[s] = DestLoc) <=> (status_log[s] = PhaseSequence)
        /\ location[s] = DestLoc => del_passes[s] = 2

C1_Witness ==
    /\ pc[1] = "stopped"
    /\ exception[1] = "none"
    /\ status[1] = AT_REST
    /\ location[1] = DestLoc
    /\ deleted[1] = MaxId

\* C2: at most one shard has a status in MIGRATION_PHASES, under every
\* interleaving of do_migration calls for different shards.
C2_SingleMigration ==
    Cardinality({s \in ShardKeys : status[s] \in MIGRATION_PHASES}) <= 1

\* C3: a do_migration call for a shard made while some shard's status is in
\* MIGRATION_PHASES raises before a worker is spawned (no manager, no thread)
\* and leaves that shard's status, location and new_location as they were.
C3_RefusedBeforeSpawn ==
    [][\A s \in ShardKeys :
        (/\ pc[s] = "none"
         /\ are_migrations_happening
         /\ (refused'[s] # refused[s] \/ pc'[s] # pc[s]))
        => /\ refused'[s]
           /\ pc'[s] = "none"
           /\ phase'[s] = "none"
           /\ status'[s] = status[s]
           /\ location'[s] = location[s]
           /\ new_location'[s] = new_location[s]]_vars

C3_Witness ==
    /\ refused[2]
    /\ pc[2] = "none"
    /\ status[1] \in MIGRATION_PHASES
    /\ status[2] = AT_REST


\* C4: when a migration has reached the final AT_REST, with the application
\* writing to the source only up to the pause, the destination holds exactly
\* the documents (same _id, same content) the shard had at the source when
\* the final sync sweep ended.
C4_DestinationEqualsSource ==
    \A s \in ShardKeys :
        (location[s] = DestLoc /\ ~written_late[s])
        => ShardDocs(dest, s) = final_sweep[s]

\* C5: once a migration is committed, the source holds no document of the
\* shard that was there when the delete passes returned, the documents
\* written while the passes ran included.
C5_SourceEmptied ==
    \A s \in ShardKeys :
        location[s] = DestLoc => ShardIds(primary, s) \subseteq written_post[s]

\* C5 (amended): once a migration is committed, every document of the shard
\* left at the source was written after the second delete pass opened its
\* cursor; documents written earlier, the first pass included, are gone.
C5_SourceEmptiedUpToSecondPass ==
    \A s \in ShardKeys :
        location[s] = DestLoc => ShardIds(primary, s) \subseteq written_p2[s]

C5_Witness ==
    /\ location[1] = DestLoc
    /\ deleted[1] = MaxId
    /\ writes_left < MaxWrites
    /\ ShardIds(primary, 1) = {}

\* the entry a step of the sync cursor of shard s replays
Replayed(s) == Head(tail_oplog_for_collection(oplog, cursor[s]))

\* C6: replaying an update entry for an _id whose document is still in the
\* shard at the source leaves the destination document of that _id equal to
\* the source's current document, whatever the form of the payload o.
C6_UpdateConverges ==
    [][\A s \in ShardKeys :
        (/\ pc[s] = "sync_tail"
         /\ cursor'[s] # cursor[s]
         /\ Replayed(s).op = "u"
         /\ Replayed(s).id \in ShardIds(primary, s))
        => dest'[Replayed(s).id] = primary[Replayed(s).id]]_vars

\* C8: the shard is persisted as POST_MIGRATION_PAUSED_AT_DESTINATION only
\* after it has been persisted as MIGRATING_SYNC for get_caching_duration().
C8_PausedAfterCachingDuration ==
    \A s \in ShardKeys :
        Len(status_log[s]) >= 3
        => paused_at[s] - sync_persisted_at[s] >= get_caching_duration

\* C9: the driver's oplog_pos never decreases; every sync call starts from
\* the driver's oplog_pos, never moves below it while replaying, and returns
\* a timestamp that is at least the oplog_pos it was given.
C9_OplogPosMonotonic ==
    [][\A s \in ShardKeys :
        /\ oplog_pos'[s] >= oplog_pos[s]
        /\ sync_pos'[s] >= sync_pos[s]
        /\ (pc[s] = "sync_check" /\ pc'[s] = "sync_tail")
           => sync_pos'[s] = oplog_pos[s]
        /\ (pc[s] = "sync_tail" /\ pc'[s] \in {"wait", "delete_begin"})
           => sync_return(s) >= oplog_pos[s]]_vars

C9_Witness ==
    /\ pc[1] = "wait"
    /\ sync_call[1] = "loop"
    /\ oplog_pos[1] > 1
    /\ inserted[1] > 0

WindowMissed == "Cannot sync from oplog as oplog_pos is not in it"

\* C10: a sync call that starts with the oldest oplog entry newer than
\* oplog_pos raises without replaying, the worker stops, and the shard's
\* persisted status remains MIGRATING_SYNC.
C10_StaysInSync ==
    \A s \in ShardKeys :
        exception[s] = WindowMissed => status[s] = MIGRATING_SYNC

\* C10 (amended): a sync call that starts with the oldest oplog entry newer
\* than oplog_pos raises without replaying an entry or writing a status; the
\* worker stops with the shard's status as the driver last persisted it
\* (MIGRATING_SYNC for the calls of the sync phase,
\* POST_MIGRATION_PAUSED_AT_DESTINATION for the final call); and a poll that
\* starts after that raises instead of returning.
C10_WindowMissed ==
    /\ [][\A s \in ShardKeys :
            (/\ pc[s] = "sync_check"
             /\ Head(oplog).ts > oplog_pos[s]
             /\ pc'[s] # pc[s])
            => /\ exception'[s] = WindowMissed
               /\ pc'[s] = "cleanup"
               /\ dest' = dest
               /\ status' = status]_vars
    /\ [](\A s \in ShardKeys :
            exception[s] = WindowMissed
            => /\ pc[s] \in {"cleanup", "stopped"}
               /\ status[s] = IF sync_call[s] = "final"
                              THEN POST_MIGRATION_PAUSED_AT_DESTINATION
                              ELSE MIGRATING_SYNC)
    /\ [][\A s \in ShardKeys :
            (exception[s] = WindowMissed /\ poll_pc[s] = "idle")
            => /\ poll_pc'[s] = "idle"
               /\ poll_result'[s] \in {poll_result[s], "raised"}]_vars

C10_Witness ==
    /\ exception[1] = WindowMissed
    /\ pc[1] = "stopped"
    /\ status[1] = MIGRATING_SYNC
    /\ poll_result[1] = "raised"


\* C11: a raise in the worker is kept on the thread; from the raising step
\* on the worker writes no status, so the shard's persisted status stays as
\* last written; the exception is never cleared; and a poll that starts once
\* the exception is kept raises instead of returning.
C11_ExceptionCaptured ==
    /\ [](\A s \in ShardKeys :
            (pc[s] \in {"cleanup", "stopped"} /\ phase[s] # "complete")
            => exception[s] # "none")
    /\ [][\A s \in ShardKeys :
            (exception'[s] # "none" /\ pc'[s] # pc[s])
            => /\ status'[s] = status[s]
               /\ location'[s] = location[s]
               /\ new_location'[s] = new_location[s]
               /\ status_log'[s] = status_log[s]]_vars
    /\ [][\A s \in ShardKeys :
            exception[s] # "none"
            => /\ exception'[s] = exception[s]
               /\ poll_pc[s] = "idle"
                  => /\ poll_pc'[s] = "idle"
                     /\ poll_result'[s] \in {poll_result[s], "raised"}]_vars

C11_Witness ==
    /\ exception[1] = "OperationFailure"
    /\ pc[1] = "stopped"
    /\ status[1] = POST_MIGRATION_PAUSED_AT_DESTINATION
    /\ poll_result[1] = "raised"
    /\ fix.pc = "idle"


\* a started migration of shard 1 whose shard is empty: no document of the
\* source matches the shard selector, on the primary or on the hidden
\* secondary, and no oplog entry carries or targets a document of the shard
EmptyShardStarted ==
    /\ pc[1] = "start"
    /\ ShardIds(primary, 1) = {}
    /\ ShardIds(secondary, 1) = {}
    /\ \A k \in 1 .. Len(oplog) : oplog[k].o.sf # 1

\* the worker of shard 1 has ended cleanly with the shard at rest at
\* new_location and both counters at zero
EmptyShardDone ==
    /\ pc[1] = "stopped"
    /\ exception[1] = "none"
    /\ status[1] = AT_REST
    /\ location[1] = DestLoc
    /\ inserted[1] = 0
    /\ deleted[1] = 0

\* C12: a started migration of an empty shard never reaches a bulk upsert
\* or a delete_many, and eventually terminates with the shard AT_REST at
\* new_location, inserted = 0 and deleted = 0.
C12_EmptyShardTerminates ==
    /\ [](EmptyShardStarted
          => [](pc[1] \notin {"copy_write", "del_write"} /\ dest = EmptyColl))
    /\ EmptyShardStarted ~> EmptyShardDone

C12_Witness ==
    /\ EmptyShardDone
    /\ ShardIds(primary, 2) # {}
    /\ Len(oplog) > 1
    /\ del_passes[1] = 2


\* C13: the worker reads the batch size once per batch and never while a
\* batch is being accumulated.
C13_TunablesReadOncePerBatch ==
    \A s \in ShardKeys :
        pc[s] \in {"copy_scan", "copy_write", "del_scan", "del_write"}
        => batch_size_fn_calls(s) <= 1


\* C14: the manager's inserted and deleted counters never decrease;
\* inserted changes only in the step that completes a bulk write, by the
\* number of upserts, and deleted only in the step that completes a
\* delete_many, by the number of documents it removed.
C14_CountersMonotonic ==
    [][\A s \in ShardKeys :
        /\ inserted'[s] >= inserted[s]
        /\ deleted'[s] >= deleted[s]
        /\ inserted'[s] # inserted[s]
           => /\ pc[s] = "copy_write"
              /\ dest' = batch_of_upsert_ops(dest, batch[s], target_key).coll
              /\ inserted'[s] - inserted[s]
                    = Cardinality({i \in Ids : dest[i] = NoDoc /\ dest'[i] # NoDoc})
        /\ deleted'[s] # deleted[s]
           => /\ pc[s] = "del_write"
              /\ deleted'[s] - deleted[s]
                    = Cardinality({i \in Ids :
                            primary[i] # NoDoc /\ primary'[i] = NoDoc})]_vars

C14_Witness ==
    /\ pc[1] = "stopped"
    /\ inserted[1] = 1
    /\ deleted[1] = MaxId
    /\ writes_left = 0

\* the records a cursor over the shard returns, in _id order from `pos`
RECURSIVE shard_records(_, _, _)
shard_records(coll, shard_key, pos) ==
    LET id == cursor_next(coll, shard_key, pos) IN
    IF id = 0 THEN <<>>
    ELSE <<[id |-> id, doc |-> coll[id]]>>
         \o shard_records(coll, shard_key, id)

\* C20: whatever key list the destination gives, when the copy of a
\* quiescent shard has returned the destination holds one document per
\* source document of the shard, with the same _id and content; no bulk
\* write has failed; and writing the same documents a second time fails on
\* no operation and changes no destination document.
C20_CopyConverges ==
    \A s \in ShardKeys :
        /\ exception[s] # "BulkWriteError"
        /\ pc[s] = "sync_begin"
           => /\ ShardDocs(dest, s) = ShardDocs(primary, s)
              /\ LET again == batch_of_upsert_ops(
                                dest, shard_records(primary, s, 0), target_key)
                 IN  ~again.raised /\ again.coll = dest


NotInCopyState == "Shard not in copy state (phase 1)"
NotInDeleteState == "Shard not in delete state"

\* C15: _do_copy entered while the status is not MIGRATING_COPY, or
\* _delete_source_data while it is not POST_MIGRATION_DELETE, raises before
\* opening a cursor or writing: shard metadata, source, destination and
\* the manager's counters are unchanged, and the precondition messages are
\* raised in no other case.
C15_PreconditionFailure ==
    [][\A s \in ShardKeys :
        /\ (/\ pc'[s] # pc[s]
            /\ \/ pc[s] = "copy_begin" /\ status[s] # MIGRATING_COPY
               \/ pc[s] = "del_check" /\ status[s] # POST_MIGRATION_DELETE)
           => /\ pc'[s] = "cleanup"
              /\ exception'[s] \in {"OperationFailure",
                    IF pc[s] = "copy_begin" THEN NotInCopyState
                    ELSE NotInDeleteState}
              /\ UNCHANGED <<status, location, new_location, status_log>>
              /\ UNCHANGED <<primary, oplog, secondary, dest>>
              /\ UNCHANGED <<inserted, deleted, cursor, batch>>
        /\ (exception[s] = "none" /\ exception'[s] = NotInCopyState)
           => pc[s] = "copy_begin" /\ status[s] # MIGRATING_COPY
        /\ (exception[s] = "none" /\ exception'[s] = NotInDeleteState)
           => pc[s] = "del_check" /\ status[s] # POST_MIGRATION_DELETE]_vars

C15_Witness ==
    /\ exception[1] = NotInDeleteState
    /\ pc[1] = "stopped"
    /\ del_passes[1] = 1
    /\ status[1] = AT_REST

\* the copy precondition fails as well
C15_WitnessCopy ==
    /\ exception[1] = NotInCopyState
    /\ pc[1] = "stopped"


\* C16: fix_failed_pre_delete called for a shard whose worker has stopped
\* and whose status is in MIGRATION_PHASES ends with no destination document
\* of the shard, the shard AT_REST at its original location, and every
\* document of the shard (each one the destination held when the helper was
\* called) at that location; called for a status outside MIGRATION_PHASES
\* it raises and changes nothing.
C16_RestoresPreMigration ==
    /\ [](\A s \in ShardKeys :
            (/\ fix.helper = "pre" /\ fix.shard = s
             /\ fix.quiet /\ fix.pc = "done")
            => /\ ShardIds(dest, s) = {}
               /\ status[s] = AT_REST
               /\ location[s] = SourceLoc
               /\ new_location[s] = "none"
               /\ \A i \in ShardIds(fix.dest0, s) : primary[i] = fix.dest0[i])
    /\ [][\A s \in ShardKeys :
            (/\ fix.pc = "idle" /\ fix'.helper = "pre" /\ fix'.shard = s)
            => /\ fix'.pc = "raised" <=> status[s] \notin MIGRATION_PHASES
               /\ UNCHANGED <<status, location, new_location, primary, dest>>]_vars
    /\ [](fix.helper = "pre" /\ fix.pc = "raised"
            => fix.exception = "Shard not in migrating phase")

\* C17: fix_failed_during_delete called for a shard whose worker has
\* stopped in the delete phase (status POST_MIGRATION_DELETE) re-runs the
\* two passes and ends with the shard AT_REST at new_location, no document
\* of the shard at the source and the destination as it was; called for any
\* other status it raises and changes nothing.
C17_ResumesDelete ==
    /\ [](\A s \in ShardKeys :
            (/\ fix.helper = "during" /\ fix.shard = s
             /\ fix.quiet /\ fix.pc = "done")
            => /\ status[s] = AT_REST
               /\ location[s] = DestLoc
               /\ new_location[s] = "none"
               /\ ShardIds(primary, s) = {}
               /\ ShardDocs(dest, s) = fix.dest0
               /\ ~fix.use_hidden_secondary)
    /\ [][\A s \in ShardKeys :
            (/\ fix.pc = "idle" /\ fix'.helper = "during" /\ fix'.shard = s)
            => /\ fix'.pc = "raised" <=> status[s] # POST_MIGRATION_DELETE
               /\ UNCHANGED <<status, location, new_location, primary, dest>>]_vars
    /\ [](fix.helper = "during" /\ fix.quiet /\ fix.pc = "raised"
            => fix.exception = "Shard not in POST_MIGRATION_DELETE phase.")

\* the worker failed after deleting part of the shard; the helper deleted
\* the rest and committed
C17_Witness ==
    /\ fix.helper = "during"
    /\ fix.quiet
    /\ fix.pc = "done"
    /\ exception[1] = "OperationFailure"
    /\ deleted[1] = 1
    /\ fix.deleted = 1
    /\ ShardIds(dest, 1) = Ids


\* C18: the delete phase makes two passes in order, the first scanning the
\* hidden secondary and the second the primary; a delete step changes the
\* primary and never the secondary; and once the second pass has returned,
\* every _id of the shard that was at the source when the delete phase began
\* has been removed from the source, whatever the lag of the secondary.
C18_TwoPassesRemoveAll ==
    /\ [](\A s \in ShardKeys :
            /\ pc[s] \in {"del_scan", "del_write", "del_done"}
               => /\ del_passes[s] \in {0, 1}
                  /\ use_hidden_secondary[s] <=> del_passes[s] = 0
            /\ del_passes[s] = 2 => to_remove[s] = {})
    /\ [][\A s \in ShardKeys :
            (pc[s] = "del_write" /\ pc'[s] # "del_write")
            => /\ secondary' = secondary
               /\ \A i \in Ids : primary'[i] # primary[i] =>
                    /\ primary'[i] = NoDoc
                    /\ \E k \in 1 .. Len(batch[s]) : batch[s][k].id = i]_vars

\* a document of the shard was inserted before the final sync sweep (the
\* application's only write), the hidden secondary has still not seen it,
\* and both passes have returned
C18_Witness ==
    /\ hidden
    /\ del_passes[1] = 2
    /\ writes_left = MaxWrites - 1
    /\ \E k \in 1 .. Len(oplog) :
        /\ oplog[k].op = "i" /\ oplog[k].o.sf = 1 /\ oplog[k].ts > sec_ts
        /\ final_sweep[1][oplog[k].id] # NoDoc
        /\ oplog[k].id \notin to_remove[1]
        /\ primary[oplog[k].id] = NoDoc
        /\ \E j \in 1 .. Len(oplog) :
            /\ oplog[j].op = "d" /\ oplog[j].id = oplog[k].id /\ j > k


\* C23: whenever is_finished() has returned True the migration completed:
\* the worker kept no exception, the manager phase is 'complete' and (no
\* recovery helper having been called) the shard is AT_REST at new_location;
\* for a failed worker is_finished() never returns True.
C23_FinishedMeansCompleted ==
    \A s \in ShardKeys :
        poll_result[s] = "True"
        => /\ exception[s] = "none"
           /\ phase[s] = "complete"
           /\ fix.helper = "none"
                => status[s] = AT_REST /\ location[s] = DestLoc


\* C24: every document a step of _delete_source_data removes from the
\* source primary has shard_field = shard_key on the primary when it is
\* removed, also when its _id was scanned from a lagging hidden secondary;
\* documents of other shards are never removed by the delete engine.
C24_DeletesOnlyShard ==
    [][\A s \in ShardKeys :
        (pc[s] = "del_write" /\ pc'[s] # "del_write")
        => \A i \in Ids :
            (primary[i] # NoDoc /\ primary'[i] = NoDoc)
            => primary[i].sf = s]_vars


\* the ts up to which the node the copy scans has applied the oplog
read_node_ts == IF hidden THEN sec_ts ELSE oplog[Len(oplog)].ts

\* C22: there is no gap between copy and sync. oplog_pos0 is read from the
\* node the copy scans, once the status is MIGRATING_COPY and before the
\* scan has read a document; every read of the scan sees the writes up to
\* oplog_pos0 at least, so a write the scan did not observe has ts >=
\* oplog_pos0; and the first sync starts at oplog_pos0 and replays every
\* entry of the namespace from there to the end of the oplog, skipping none.
C22_NoGap ==
    /\ [][\A s \in ShardKeys :
            (pc[s] = "get_oplog_pos" /\ pc'[s] # pc[s])
            => /\ status[s] = MIGRATING_COPY
               /\ inserted[s] = 0
               /\ oplog_pos'[s] = read_node_ts]_vars
    /\ [](\A s \in ShardKeys :
            pc[s] \in {"copy_begin", "copy_scan", "copy_write"}
            => read_node_ts >= oplog_pos[s])
    /\ [][\A s \in ShardKeys :
            (pc[s] = "sync_check" /\ sync_call[s] = "first"
             /\ pc'[s] = "sync_tail")
            => cursor'[s] = oplog_pos[s]]_vars
    /\ [][\A s \in ShardKeys :
            (pc[s] = "sync_tail" /\ sync_call[s] = "first")
            => /\ cursor'[s] # cursor[s]
                    => \A t \in cursor[s] .. cursor'[s] - 2 : t = InitEntry.ts
               /\ pc'[s] = "wait"
                    => \A t \in cursor[s] .. NextTs - 1 : t = InitEntry.ts]_vars


\* C21: a cursor of the copy, sync or delete engine is held only while the
\* engine that opened it runs: on every exit of the engine, normal or by an
\* error at any step after the cursor was made (a failure of the index
\* lookup included), it has been closed; and once the worker has stopped
\* it holds no cluster connection and no hidden-secondary connection.
C21_ResourcesClosed ==
    \A s \in ShardKeys :
        /\ "copy_cursor" \in held[s] => pc[s] \in {"copy_scan", "copy_write"}
        /\ "sync_cursor" \in held[s] => pc[s] = "sync_tail"
        /\ "delete_cursor" \in held[s] => pc[s] \in {"del_scan", "del_write"}
        /\ pc[s] = "stopped" => held[s] \cap Connections = {}


(* -------------------- the replay laws (pure) --------------------------- *)
AllColls == [Ids -> Doc \cup {NoDoc}]

\* the payloads an oplog entry of each kind may carry
Payloads(op) ==
    IF op = "d" THEN {[form |-> "none", sf |-> 0, v |-> "-"]}
    ELSE {[form |-> "doc", sf |-> d.sf, v |-> d.v] : d \in Doc}
         \cup (IF op = "u"
               THEN {[form |-> "mod", sf |-> 0, v |-> x] : x \in Values}
               ELSE {})

\* oplog windows of our namespace, timestamped by position
Windows ==
    UNION {
        {[k \in 1 .. n |->
            [ts |-> k, ns |-> "coll", op |-> w[k].op, id |-> w[k].id,
             o |-> w[k].o]] :
         w \in [1 .. n ->
                UNION {[op : {op}, id : Ids, o : Payloads(op)] :
                       op \in {"i", "u", "d"}}]} :
        n \in 1 .. MaxEntries}

\* the writes of a window applied in order to a collection
RECURSIVE ApplyAll(_, _)
ApplyAll(coll, w) ==
    IF w = <<>> THEN coll ELSE ApplyAll(Apply(coll, Head(w)), Tail(w))

\* a window the primary can have logged from a collection: inserts of
\* absent _ids, updates and deletes of present ones
RECURSIVE Loggable(_, _)
Loggable(coll, w) ==
    IF w = <<>> THEN TRUE
    ELSE /\ (Head(w).op = "i") = (coll[Head(w).id] = NoDoc)
         /\ Loggable(Apply(coll, Head(w)), Tail(w))

\* any destination, any oplog window up to the present and the source it
\* leaves behind; nothing writes the source afterwards
InitReplay ==
    /\ InitState
    /\ primary \in AllColls
    /\ secondary = primary
    /\ oplog \in Windows
    /\ \E base \in AllColls :
            Loggable(base, oplog) /\ primary = ApplyAll(base, oplog)
    /\ sec_ts = 1
    /\ hidden = FALSE
    /\ dest \in AllColls
    /\ target_key = {"_id"}
    /\ callers = {}
    /\ writes_left = 0
    /\ truncs_left = 0

\* one entry of the window is replayed for shard 1
ReplayEntry(k) ==
    /\ dest' = replay_oplog_entry(oplog[k], 1, primary, dest).coll
    /\ UNCHANGED <<meta_vars, source_vars, thread_vars, manager_vars,
                   caller_vars, env_vars, hist_vars>>
    /\ UNCHANGED fix
    /\ UNCHANGED target_key
    /\ UNCHANGED to_remove
    /\ UNCHANGED held

\* a sync of shard 1 resumes at oplog position `from`
ResumeSync(from) ==
    /\ dest' = sync_from_oplog(oplog, from, 1, primary, dest).coll
    /\ UNCHANGED <<meta_vars, source_vars, thread_vars, manager_vars,
                   caller_vars, env_vars, hist_vars>>
    /\ UNCHANGED fix
    /\ UNCHANGED target_key
    /\ UNCHANGED to_remove
    /\ UNCHANGED held

NextReplay ==
    \/ \E k \in 1 .. Len(oplog) : ReplayEntry(k)
    \/ \E from \in 1 .. Len(oplog) : ResumeSync(from)

SpecReplay == InitReplay /\ [][NextReplay]_vars

\* C19: after the replay of a delete ('d') oplog entry the destination holds
\* no document of the entry's _id, and if it held none in the shard the
\* entry changes nothing; the source is not consulted.
C19_DeleteLeavesNoId ==
    \A k \in 1 .. Len(oplog) :
        oplog[k].op = "d" =>
            LET r == replay_oplog_entry(oplog[k], 1, primary, dest) IN
            /\ ~r.raised
            /\ r.coll[oplog[k].id] = NoDoc
            /\ oplog[k].id \notin ShardIds(dest, 1) => r.coll = dest
            /\ \A source \in AllColls :
                replay_oplog_entry(oplog[k], 1, source, dest) = r

\* C19 (amended): after the replay of a delete ('d') oplog entry the
\* destination holds no document of the entry's _id in the shard and its
\* other documents are as they were; if it held none of that _id in the
\* shard the entry changes nothing; the source is not consulted.
C19_DeleteLeavesNoShardId ==
    \A k \in 1 .. Len(oplog) :
        oplog[k].op = "d" =>
            LET r == replay_oplog_entry(oplog[k], 1, primary, dest) IN
            /\ ~r.raised
            /\ oplog[k].id \notin ShardIds(r.coll, 1)
            /\ \A i \in Ids \ {oplog[k].id} : r.coll[i] = dest[i]
            /\ oplog[k].id \in ShardIds(dest, 1) => r.coll[oplog[k].id] = NoDoc
            /\ oplog[k].id \notin ShardIds(dest, 1) => r.coll = dest
            /\ \A source \in AllColls :
                replay_oplog_entry(oplog[k], 1, source, dest) = r

\* the _id was deleted at the source and inserted again; the destination
\* still holds the copied document and the replay of the delete removes it
C19_Witness ==
    /\ Len(oplog) = 2
    /\ oplog[1].op = "d"
    /\ oplog[2].op = "i" /\ oplog[2].id = oplog[1].id
    /\ oplog[1].id \in ShardIds(primary, 1)
    /\ oplog[1].id \in ShardIds(dest, 1)
    /\ replay_oplog_entry(oplog[1], 1, primary, dest).coll[oplog[1].id] = NoDoc


\* C7: replaying an oplog entry a second time, or running the sync a second
\* time from the same oplog_pos with no source write in between, raises
\* nothing and leaves the destination as the first replay left it.
C7_SyncIdempotent ==
    /\ \A k \in 1 .. Len(oplog) :
        LET once == replay_oplog_entry(oplog[k], 1, primary, dest)
            twice == replay_oplog_entry(oplog[k], 1, primary, once.coll)
        IN  ~once.raised /\ ~twice.raised /\ twice.coll = once.coll
    /\ \A from \in 1 .. Len(oplog) :
        LET once == sync_from_oplog(oplog, from, 1, primary, dest)
            twice == sync_from_oplog(oplog, from, 1, primary, once.coll)
        IN  ~once.raised /\ ~twice.raised /\ twice.coll = once.coll

\* an insert entry replayed onto a destination that already holds the _id
C7_Witness ==
    /\ oplog[1].op = "i"
    /\ oplog[1].id \in ShardIds(primary, 1)
    /\ dest[oplog[1].id] # NoDoc
    /\ dest[oplog[1].id] # [sf |-> oplog[1].o.sf, v |-> oplog[1].o.v]
    /\ dest = replay_oplog_entry(oplog[1], 1, primary, dest).coll

====
